---- MODULE Spec2Model ----
(***************************************************************************)
(* A model of merge_data.py: the merge of the declared-algorithm catalog   *)
(* with the usage observations (merge), the record type (AlgRecord), and   *)
(* the three reports (figures, summary, table) that consume the mapping.   *)
(*                                                                         *)
(* Algorithm names are Python strings; they are modelled as sequences of   *)
(* one-character strings so that the slicing of line 169-170 is computed   *)
(* as the code computes it.  The line totals of add_line_count_info are    *)
(* not modelled (only has_test, which the reports read).                   *)
(***************************************************************************)
EXTENDS Integers, Sequences, FiniteSets, TLC

VARIABLES
    catalog,            \* parse_mantid_source.get_declared_algorithms()
    results,            \* parse_raw_results.get_algorithm_results()
    deprecated_headers, \* lines of the deprecated-algorithms file
    blacklist_file,     \* lines of the blacklist file (<<>>: an empty file)
    args,               \* the parsed command line
    merged,             \* the dict built by merge(): name -> AlgRecord
    to_delete,          \* the list of line 188: key -> number of appends
    idx,                \* position of the running for loop
    pc,                 \* the statement merge_data.py executes next
    err,                \* the uncaught exception and the line that raised it
    report              \* what has been printed / plotted

vars == <<catalog, results, deprecated_headers, blacklist_file, args,
          merged, to_delete, idx, pc, err, report>>

inputs == <<catalog, results, deprecated_headers, blacklist_file, args>>

-----------------------------------------------------------------------------
(* Bounds of the explored inputs *)

MaxCatalog == 3
MaxObs == 2
MaxBlacklist == 1

-----------------------------------------------------------------------------
(* Strings as character sequences *)

Digits == <<"0", "1", "2", "3", "4", "5", "6", "7", "8", "9">>

\* int(c) for a one-character string c that is a decimal digit
IntOfChar(c) == (CHOOSE k \in 1..10 : Digits[k] = c) - 1

\* str(n) for n >= 0
RECURSIVE Str(_)
Str(n) == IF n < 10 THEN <<Digits[n + 1]>>
          ELSE Str(n \div 10) \o <<Digits[(n % 10) + 1]>>

\* The identity <Name>.v<N>
Ident(stem, n) == stem \o <<".", "v">> \o Str(n)

StemA == <<"A">>
StemQ1D == <<"Q", "1", "D">>
StemQ1D2 == <<"Q", "1", "D", "2">>

\* The two names of the special case of lines 197-202
RenameFrom == Ident(StemQ1D, 2)
RenameTo == Ident(StemQ1D2, 1)

-----------------------------------------------------------------------------
(* class AlgRecord *)

NumVersions == 8
ZeroCounts == [k \in 0..(NumVersions - 1) |-> 0]

\* parse_mantid_source.AlgFileRecord as the merge reads it
AlgFileRecord(nm, ty, tst, p) ==
    [name |-> nm, type |-> ty, is_test |-> tst, module |-> "Algorithms", path |-> p]

\* AlgRecord.__init__ on an AlgFileRecord
AlgRecordFromFile(data) ==
    [name |-> data.name, path |-> data.path, type |-> data.type,
     is_test |-> data.is_test, module |-> data.module, ours |-> TRUE,
     has_test |-> FALSE, superseded |-> "unset", is_deprecated |-> FALSE,
     count_direct |-> ZeroCounts, count_internal |-> ZeroCounts]

\* AlgRecord.__init__ on a str
AlgRecordFromName(nm) ==
    [name |-> nm, path |-> "-", type |-> "-",
     is_test |-> FALSE, module |-> "-", ours |-> FALSE,
     has_test |-> FALSE, superseded |-> "unset", is_deprecated |-> FALSE,
     count_direct |-> ZeroCounts, count_internal |-> ZeroCounts]

SupportedVersions == {"3.5", "3.6", "3.7", "3.8", "3.9", "3.10", "3.11", "3.12"}

\* A variant that lets an unrecognised version fall into the last slot
index_for_version_lenient(version) ==
    CASE version = "3.5" -> 0
      [] version = "3.6" -> 1
      [] version = "3.7" -> 2
      [] version = "3.8" -> 3
      [] version = "3.9" -> 4
      [] version = "3.10" -> 5
      [] version = "3.11" -> 6
      [] OTHER -> 7

\* AlgRecord.index_for_version; -1 stands for the RuntimeError of line 71
index_for_version(version) ==
    CASE version = "3.5" -> 0
      [] version = "3.6" -> 1
      [] version = "3.7" -> 2
      [] version = "3.8" -> 3
      [] version = "3.9" -> 4
      [] version = "3.10" -> 5
      [] version = "3.11" -> 6
      [] version = "3.12" -> 7
      [] OTHER -> -1

\* A variant with the two branches of line 76 exchanged
add_result_data_swapped(rec, result) ==
    LET index == index_for_version(result.version) IN
    IF result.is_child
    THEN [rec EXCEPT !.count_direct[index] = @ + result.count]
    ELSE [rec EXCEPT !.count_internal[index] = @ + result.count]

\* AlgRecord.add_result_data, for a version index_for_version accepts
add_result_data(rec, result) ==
    LET index == index_for_version(result.version) IN
    IF result.is_child
    THEN [rec EXCEPT !.count_internal[index] = @ + result.count]
    ELSE [rec EXCEPT !.count_direct[index] = @ + result.count]

RECURSIVE SumTo(_, _)
SumTo(f, k) == IF k < 0 THEN 0 ELSE f[k] + SumTo(f, k - 1)

\* sum(list)
Sum(f) == SumTo(f, NumVersions - 1)

\* AlgRecord.get_count
get_count(rec) == Sum(rec.count_direct) + Sum(rec.count_internal)

\* A variant that reports 0.0 for a record without uses
get_internal_fraction_zero(rec) ==
    LET count == get_count(rec) IN
    IF count < 1 THEN <<0, 1>> ELSE <<Sum(rec.count_internal), count>>

\* AlgRecord.get_internal_fraction, as the fraction <<numerator, denominator>>
get_internal_fraction(rec) ==
    LET count == get_count(rec) IN
    IF count < 1 THEN <<1, 1>> ELSE <<Sum(rec.count_internal), count>>

\* parse_raw_results.AlgResultRecord
AlgResultRecord(entries) ==
    [name |-> entries[1], count |-> entries[2],
     is_child |-> entries[3], version |-> entries[4]]

-----------------------------------------------------------------------------
(* The files add_line_count_info and is_deprecated look at.  A path is a   *)
(* base name b; its source, header and test files are <<"src", b>>,        *)
(* <<"inc", b>> and <<"test", b>> (the substitutions of lines 111-123).    *)

SourceBases == {"A1", "A2", "A19", "A20", "Q1D1", "Q1D2", "Q1D3", "Q1D2n"}
TestedBases == {"A1", "A19", "Q1D2", "Q1D2n"}

ExistingFiles == {<<"src", b>> : b \in SourceBases} \cup {<<"test", b>> : b \in TestedBases}

\* has_test as add_line_count_info leaves it
add_line_count_info(rec) ==
    IF <<"src", rec.path>> \notin ExistingFiles
    THEN rec                                             \* IOError: line_count = '-'
    ELSE IF (~rec.is_test) /\ rec.type \in {"C++", "Python"}
              /\ <<"test", rec.path>> \in ExistingFiles
         THEN [rec EXCEPT !.has_test = TRUE]
         ELSE rec

is_deprecated(rec, headers) ==
    IF rec.type = "C++" /\ ~rec.is_test
    THEN <<"inc", rec.path>> \in headers
    ELSE FALSE

-----------------------------------------------------------------------------
(* merge() *)

\* Lines 169-170: the mark of a record among the keys of merged
superseded_mark(name, keys) ==
    LET alg_version == IntOfChar(name[Len(name)])
        next == SubSeq(name, 1, Len(name) - 1) \o Str(alg_version + 1)
    IN IF next \in keys THEN "superseded" ELSE "          -"

\* load_blacklist: ''.split('\n') is [''], so an empty file yields one empty name
load_blacklist(lines) == IF lines = <<>> THEN << <<>> >> ELSE lines

\* A variant of the test criterion with "or" for "and"
fails_tests_or(a, rec) == (~a.include_tests) \/ rec.is_test

\* Line 190
fails_ours(a, rec) == a.ours /\ ~rec.ours

\* Line 192
fails_tests(a, rec) == (~a.include_tests) /\ rec.is_test

\* A variant of the loop of lines 189-193 that appends a key of a test record only
\* when tests are included
appends_inverted(a, rec) ==
    (IF fails_ours(a, rec) THEN 1 ELSE 0) + (IF a.include_tests /\ rec.is_test THEN 1 ELSE 0)

\* How often the loop of lines 189-193 appends the key of rec
appends(a, rec) ==
    (IF fails_ours(a, rec) THEN 1 ELSE 0) + (IF fails_tests(a, rec) THEN 1 ELSE 0)

\* An uncaught exception raised at a line of merge_data.py ends the process
Abort(e, line) ==
    /\ pc' = "aborted"
    /\ err' = [type |-> e, line |-> line]

\* Lines 160-161
Seed ==
    /\ pc = "seed"
    /\ merged' = [nm \in {catalog[k].name : k \in 1..Len(catalog)} |->
                    LET last == CHOOSE k \in 1..Len(catalog) :
                                  /\ catalog[k].name = nm
                                  /\ \A j \in (k + 1)..Len(catalog) : catalog[j].name # nm
                    IN AlgRecordFromFile(catalog[last])]
    /\ pc' = IF results = <<>> THEN "supersede" ELSE "fold"
    /\ idx' = 1
    /\ UNCHANGED <<inputs, to_delete, err, report>>

\* Lines 164-165, one observation
Fold ==
    /\ pc = "fold"
    /\ LET result == results[idx]
           rec == IF result.name \in DOMAIN merged THEN merged[result.name]
                  ELSE AlgRecordFromName(result.name)
       IN IF index_for_version(result.version) = -1
          THEN /\ Abort("RuntimeError", 71)
               /\ merged' = [nm \in DOMAIN merged \cup {result.name} |->
                               IF nm = result.name THEN rec ELSE merged[nm]]
               /\ UNCHANGED idx
          ELSE /\ merged' = [nm \in DOMAIN merged \cup {result.name} |->
                               IF nm = result.name THEN add_result_data(rec, result)
                               ELSE merged[nm]]
               /\ idx' = idx + 1
               /\ pc' = IF idx = Len(results) THEN "supersede" ELSE "fold"
               /\ UNCHANGED err
    /\ UNCHANGED <<inputs, to_delete, report>>

\* Lines 168-171
Supersede ==
    /\ pc = "supersede"
    /\ merged' = [nm \in DOMAIN merged |->
                    [merged[nm] EXCEPT !.superseded = superseded_mark(merged[nm].name, DOMAIN merged)]]
    /\ pc' = "line_counts"
    /\ UNCHANGED <<inputs, to_delete, idx, err, report>>

\* Lines 174-175
AddLineCounts ==
    /\ pc = "line_counts"
    /\ merged' = [nm \in DOMAIN merged |-> add_line_count_info(merged[nm])]
    /\ pc' = "deprecation"
    /\ UNCHANGED <<inputs, to_delete, idx, err, report>>

\* Lines 178-181
AddDeprecation ==
    /\ pc = "deprecation"
    /\ merged' = [nm \in DOMAIN merged |->
                    [merged[nm] EXCEPT !.is_deprecated = is_deprecated(merged[nm], deprecated_headers)]]
    /\ pc' = "blacklist"
    /\ idx' = 1
    /\ UNCHANGED <<inputs, to_delete, err, report>>

\* Lines 184-185, one item of the blacklist
RemoveBlacklisted ==
    /\ pc = "blacklist"
    /\ LET items == load_blacklist(blacklist_file)
           item == items[idx]
       IN IF item \notin DOMAIN merged
          THEN /\ Abort("KeyError", 185)
               /\ UNCHANGED <<merged, idx>>
          ELSE /\ merged' = [nm \in DOMAIN merged \ {item} |-> merged[nm]]
               /\ idx' = idx + 1
               /\ pc' = IF idx = Len(items) THEN "filter" ELSE "blacklist"
               /\ UNCHANGED err
    /\ UNCHANGED <<inputs, to_delete, report>>

\* Lines 188-193
CollectUnwanted ==
    /\ pc = "filter"
    /\ to_delete' = [nm \in DOMAIN merged |-> appends(args, merged[nm])]
    /\ pc' = "delete"
    /\ UNCHANGED <<inputs, merged, idx, err, report>>

\* Lines 194-195: the second del of a key raises KeyError (which keys are gone by
\* then depends on the order of to_delete; the mapping is not used after it)
DeleteUnwanted ==
    /\ pc = "delete"
    /\ merged' = [nm \in {k \in DOMAIN merged : to_delete[k] = 0} |-> merged[nm]]
    /\ IF \E k \in DOMAIN to_delete : to_delete[k] > 1
       THEN Abort("KeyError", 195)
       ELSE pc' = "rename" /\ UNCHANGED err
    /\ UNCHANGED <<inputs, to_delete, idx, report>>

\* Lines 199-204
Rename ==
    /\ pc = "rename"
    /\ IF RenameFrom \notin DOMAIN merged
       THEN /\ Abort("KeyError", 199)
            /\ UNCHANGED merged
       ELSE /\ merged' = [nm \in (DOMAIN merged \ {RenameFrom}) \cup {RenameTo} |->
                            IF nm = RenameTo
                            THEN [merged[RenameFrom] EXCEPT !.name = RenameTo]
                            ELSE merged[nm]]
            /\ pc' = "report"
            /\ UNCHANGED err
    /\ UNCHANGED <<inputs, to_delete, idx, report>>

-----------------------------------------------------------------------------
(* The reports *)

\* format_algorithm_line: the fields of the rendered line
format_algorithm_line(rec) ==
    LET fraction == get_internal_fraction(rec) IN
    [usecount |-> get_count(rec),
     child |-> (100 * fraction[1]) \div fraction[2],
     type |-> rec.type,
     codebase |-> IF rec.ours THEN "ours" ELSE "theirs",
     testinfo |-> IF rec.has_test THEN "       -" ELSE "untested",
     istest |-> IF rec.is_test THEN "test" ELSE "   -",
     versioninfo |-> rec.superseded,
     deprecated |-> IF rec.is_deprecated THEN "deprecated" ELSE "         -",
     name |-> rec.name]

Records(m) == {m[nm] : nm \in DOMAIN m}

\* get_summary with the untested counter counting the records that have a test
get_summary_tested(m, a) ==
    LET R == Records(m) IN
    [total |-> Cardinality(R),
     deprecated |-> Cardinality({r \in R : r.is_deprecated}),
     untested |-> Cardinality({r \in R : r.has_test}),
     superseded |-> Cardinality({r \in R : r.superseded = "superseded"}),
     unused |-> Cardinality({r \in R : get_count(r) = 0}),
     up_to_threshold |->
         Cardinality({r \in R : get_count(r) = 0})
         + Cardinality({r \in R : 0 < get_count(r) /\ get_count(r) <= a.max_count})]

\* get_summary: each counter is incremented once per record that meets its test
get_summary(m, a) ==
    LET R == Records(m) IN
    [total |-> Cardinality(R),
     deprecated |-> Cardinality({r \in R : r.is_deprecated}),
     untested |-> Cardinality({r \in R : ~r.has_test}),
     superseded |-> Cardinality({r \in R : r.superseded = "superseded"}),
     unused |-> Cardinality({r \in R : get_count(r) = 0}),
     up_to_threshold |->
         Cardinality({r \in R : get_count(r) = 0})
         + Cardinality({r \in R : 0 < get_count(r) /\ get_count(r) <= a.max_count})]

\* print_summary: the lines of each section and the scalars of '=== Summary ==='
print_summary(m, a) ==
    LET R == Records(m)
        summary == get_summary(m, a)
        labels == {"total", "unused", "deprecated", "superseded", "untested"}
                  \cup (IF a.max_count > 0 THEN {"up_to_threshold"} ELSE {})
    IN [kind |-> "summary",
        max_count |-> a.max_count,
        sections |->
          [unused |-> {format_algorithm_line(r) : r \in {x \in R : get_count(x) = 0}},
           below_max |-> {format_algorithm_line(r) :
                            r \in {x \in R : 0 < get_count(x) /\ get_count(x) <= a.max_count}},
           untested |-> {format_algorithm_line(r) : r \in {x \in R : ~x.has_test}},
           deprecated |-> {format_algorithm_line(r) : r \in {x \in R : x.is_deprecated}},
           superseded |-> {format_algorithm_line(r) :
                             r \in {x \in R : x.superseded = "superseded"}}],
        scalars |-> [l \in labels |-> summary[l]]]

\* print_table
print_table(m, a) ==
    [kind |-> "table",
     max_count |-> a.max_count,
     lines |-> {format_algorithm_line(r) :
                  r \in {x \in Records(m) :
                           ~(a.max_count >= 0 /\ a.max_count < get_count(x))}}]

thresholds == <<1, 10, 20, 100, 1000, 10000, 1000000000>>

\* Lines 397-401: the bucket the while loop stops at for a use count
bucket(count) == CHOOSE b \in 0..(Len(thresholds) - 1) :
                    /\ count < thresholds[b + 1]
                    /\ \A c \in 0..(b - 1) : count >= thresholds[c + 1]

\* Lines 391-416
create_figures(m, a) ==
    [kind |-> "figures",
     max_count |-> a.max_count,
     counts |-> [b \in 0..(Len(thresholds) - 1) |->
                   Cardinality({r \in Records(m) : bucket(get_count(r)) = b})],
     bars |-> get_summary(m, a)]

\* Lines 391-416
Figures ==
    /\ pc = "report"
    /\ args.create_figures
    /\ report' = create_figures(merged, args)
    /\ pc' = "done"
    /\ UNCHANGED <<inputs, merged, to_delete, idx, err>>

\* Lines 418-419
Summary ==
    /\ pc = "report"
    /\ ~args.create_figures
    /\ args.summary
    /\ report' = print_summary(merged, args)
    /\ pc' = "done"
    /\ UNCHANGED <<inputs, merged, to_delete, idx, err>>

\* Lines 421-422
Table ==
    /\ pc = "report"
    /\ ~args.create_figures
    /\ ~args.summary
    /\ report' = print_table(merged, args)
    /\ pc' = "done"
    /\ UNCHANGED <<inputs, merged, to_delete, idx, err>>

-----------------------------------------------------------------------------
(* The explored inputs *)

Arguments(o, t, c, s, f) ==
    [ours |-> o, include_tests |-> t, max_count |-> c, summary |-> s, create_figures |-> f]

\* The elements of a pool at the positions of S, in the pool's order
RECURSIVE Pick(_, _)
Pick(pool, S) ==
    IF S = {} THEN <<>>
    ELSE LET k == CHOOSE x \in S : \A y \in S : x <= y
         IN <<pool[k]>> \o Pick(pool, S \ {k})

SubLists(pool, n) ==
    {Pick(pool, S) : S \in {T \in SUBSET (1..Len(pool)) : Cardinality(T) <= n}}

RECURSIVE SeqsUpTo(_, _)
SeqsUpTo(S, n) ==
    IF n = 0 THEN {<<>>}
    ELSE LET shorter == SeqsUpTo(S, n - 1)
         IN shorter \cup {Append(s, x) : s \in shorter, x \in S}

A1 == Ident(StemA, 1)
A2 == Ident(StemA, 2)

\* Usage observations only: any order, repetitions, negative counts, an unknown version
FoldResults ==
    SeqsUpTo({AlgResultRecord(<<nm, c, ch, v>>) :
                nm \in {A1, A2}, c \in {-3, 0, 3, 7}, ch \in BOOLEAN, v \in {"3.5", "3.6", "4.0"}},
             MaxObs)

InitFold ==
    /\ catalog = <<>>
    /\ results \in FoldResults
    /\ deprecated_headers = {}
    /\ blacklist_file = <<>>
    /\ args = Arguments(FALSE, FALSE, -1, FALSE, FALSE)

\* Catalogs with adjacent versions, multi-digit versions, a test file and both
\* names of the special case; every blacklist and both merge-time flags
MergePool ==
    <<AlgFileRecord(A1, "C++", FALSE, "A1"),
      AlgFileRecord(A2, "C++", TRUE, "A2"),
      AlgFileRecord(Ident(StemA, 19), "Python", FALSE, "A19"),
      AlgFileRecord(Ident(StemA, 20), "Python", FALSE, "A20"),
      AlgFileRecord(Ident(StemQ1D, 1), "C++", FALSE, "Q1D1"),
      AlgFileRecord(Ident(StemQ1D, 2), "C++", FALSE, "Q1D2"),
      AlgFileRecord(Ident(StemQ1D, 3), "C++", FALSE, "Q1D3"),
      AlgFileRecord(Ident(StemQ1D2, 1), "C++", FALSE, "Q1D2n")>>

MergeResults ==
    {<<>>,
     <<AlgResultRecord(<<A1, 7, TRUE, "3.12">>)>>,
     <<AlgResultRecord(<<RenameFrom, 3, FALSE, "3.10">>)>>}

MergeBlacklists ==
    SeqsUpTo({A1, Ident(StemA, 20), Ident(StemQ1D, 3), RenameTo}, MaxBlacklist)

InitMerge ==
    /\ catalog \in SubLists(MergePool, MaxCatalog)
    /\ results \in MergeResults
    /\ deprecated_headers = {}
    /\ blacklist_file \in MergeBlacklists
    /\ \E o \in BOOLEAN, t \in BOOLEAN : args = Arguments(o, t, -1, FALSE, FALSE)

\* Runs that reach the reports: Q1D.v2 is declared, Q1D.v3 is declared and blacklisted
ReportPool ==
    <<AlgFileRecord(A1, "C++", FALSE, "A1"),
      AlgFileRecord(A2, "C++", FALSE, "A2"),
      AlgFileRecord(Ident(StemQ1D, 1), "Python", FALSE, "Q1D1")>>

ReportResults ==
    SeqsUpTo({AlgResultRecord(<<A1, 3, FALSE, "3.9">>),
              AlgResultRecord(<<A1, 7, TRUE, "3.11">>),
              AlgResultRecord(<<A2, 7, TRUE, "3.11">>)}, MaxObs)

InitReport ==
    /\ catalog \in {<<MergePool[6], MergePool[7]>> \o extra :
                      extra \in SubLists(ReportPool, MaxCatalog - 1)}
    /\ results \in ReportResults
    /\ deprecated_headers \in {{}, {<<"inc", "A1">>, <<"inc", "Q1D1">>}}
    /\ blacklist_file = <<Ident(StemQ1D, 3)>>
    /\ \E c \in {-1, 0, 3, 7}, s \in BOOLEAN, f \in BOOLEAN :
          args = Arguments(FALSE, FALSE, c, s, f)

Init ==
    /\ InitFold \/ InitMerge \/ InitReport
    /\ merged = <<>>
    /\ to_delete = <<>>
    /\ idx = 0
    /\ pc = "seed"
    /\ err = [type |-> "", line |-> 0]
    /\ report = [kind |-> "none"]

Next ==
    \/ Seed
    \/ Fold
    \/ Supersede
    \/ AddLineCounts
    \/ AddDeprecation
    \/ RemoveBlacklisted
    \/ CollectUnwanted
    \/ DeleteUnwanted
    \/ Rename
    \/ Figures
    \/ Summary
    \/ Table

Spec == Init /\ [][Next]_vars

-----------------------------------------------------------------------------
(* Properties *)

\* merge() has returned: merged is the mapping the reports consume
Returned == pc \in {"report", "done"}

Keys == DOMAIN merged

CatalogNames == {catalog[k].name : k \in 1..Len(catalog)}
ResultNames == {results[k].name : k \in 1..Len(results)}
BlacklistNames == {blacklist_file[k] : k \in 1..Len(blacklist_file)}

\* The names on the lines a report printed
ReportedNames ==
    CASE report.kind = "table" -> {l.name : l \in report.lines}
      [] report.kind = "summary" ->
           {l.name : l \in report.sections.unused \cup report.sections.below_max
                            \cup report.sections.untested \cup report.sections.deprecated
                            \cup report.sections.superseded}
      [] OTHER -> {}

Stems == {StemA, StemQ1D, StemQ1D2}
VersionNumbers == 1..20

\* C1: in the mapping merge() returns, the record of X.v{N} is marked superseded
\* exactly when X.v{N+1} is a key of that mapping, for every name X and version N.
C1_SupersededIffSiblingPresent ==
    Returned =>
        \A stem \in Stems, n \in VersionNumbers :
            Ident(stem, n) \in Keys =>
                ((merged[Ident(stem, n)].superseded = "superseded")
                    <=> (Ident(stem, n + 1) \in Keys))

\* C2: once merge() has returned, no identity of the blacklist is a key of the
\* mapping and no line of a report names it, whatever the flags.
C2_BlacklistedNeverReturned ==
    Returned => (BlacklistNames \cap Keys = {} /\ BlacklistNames \cap ReportedNames = {})

\* C3: when the mapping already holds a record keyed Q1D2.v1 at the moment the
\* rename is applied, merge() ends with an error instead of returning.
C3_RenameCollisionSurfaced ==
    [][(pc = "rename" /\ RenameTo \in Keys) => pc' = "aborted"]_vars

AllVersionsSupported == \A k \in 1..Len(results) : results[k].version \in SupportedVersions

NoFilterFlags == (~args.ours) /\ (~args.include_tests) /\ args.max_count = -1

\* C5: with supported versions only, an empty deprecated set, an empty blacklist
\* and no filter flags, merge() completes and returns exactly one record per
\* distinct identity of the catalog and the observations.
C5_MergeCompletesOnePerIdentity ==
    (AllVersionsSupported /\ deprecated_headers = {} /\ blacklist_file = <<>> /\ NoFilterFlags)
        => /\ pc # "aborted"
           /\ Returned => Keys = CatalogNames \cup ResultNames

-----------------------------------------------------------------------------

VersionList == <<"3.5", "3.6", "3.7", "3.8", "3.9", "3.10", "3.11", "3.12">>

\* How many observations the fold loop has consumed
Folded == IF pc = "fold" THEN idx - 1 ELSE Len(results)

\* The sum of the counts of the first n observations with this name, version slot
\* and direct/child flag
RECURSIVE Observed(_, _, _, _)
Observed(nm, slot, child, n) ==
    IF n = 0 THEN 0
    ELSE Observed(nm, slot, child, n - 1)
         + (IF /\ results[n].name = nm
               /\ results[n].version = VersionList[slot + 1]
               /\ results[n].is_child = child
            THEN results[n].count ELSE 0)

\* C4: during and after the fold, every slot of every record holds the sum of the
\* counts of the observations folded so far with that name, version and flag (0
\* when there is none); a name seen only in observations has a record with
\* ours = false and '-' for path, type and module, a declared name keeps the
\* fields of its catalog entry.
C4_EachObservationFoldedOnce ==
    pc \in {"fold", "supersede"} =>
        /\ Keys = CatalogNames \cup {results[k].name : k \in 1..Folded}
        /\ \A nm \in Keys :
            /\ \A slot \in 0..(NumVersions - 1) :
                /\ merged[nm].count_direct[slot] = Observed(nm, slot, FALSE, Folded)
                /\ merged[nm].count_internal[slot] = Observed(nm, slot, TRUE, Folded)
            /\ nm \notin CatalogNames =>
                /\ ~merged[nm].ours
                /\ merged[nm].path = "-" /\ merged[nm].module = "-" /\ merged[nm].type = "-"
            /\ nm \in CatalogNames =>
                \E k \in 1..Len(catalog) :
                    /\ catalog[k].name = nm
                    /\ merged[nm].ours
                    /\ merged[nm].path = catalog[k].path
                    /\ merged[nm].type = catalog[k].type
                    /\ merged[nm].module = catalog[k].module
                    /\ merged[nm].is_test = catalog[k].is_test

C4_Witness ==
    /\ pc = "supersede"
    /\ \E nm \in Keys : merged[nm].ours /\ merged[nm].count_direct[4] = 3
    /\ \E nm \in Keys : (~merged[nm].ours) /\ merged[nm].count_internal[6] = 7

UnknownVersions == {k \in 1..Len(results) : results[k].version \notin SupportedVersions}

RECURSIVE CountsBefore(_)
CountsBefore(n) == IF n <= 1 THEN 0 ELSE CountsBefore(n - 1) + results[n - 1].count

RECURSIVE SlotsOf(_)
SlotsOf(S) ==
    IF S = {} THEN 0
    ELSE LET nm == CHOOSE x \in S : TRUE
         IN Sum(merged[nm].count_direct) + Sum(merged[nm].count_internal) + SlotsOf(S \ {nm})

\* C6: when an observation carries a version outside 3.5 .. 3.12, the fold never
\* goes past the first such observation: merge() ends there with the RuntimeError
\* of index_for_version, nothing of that observation is in any count slot, merge()
\* never returns and no report is emitted.
C6_UnknownVersionAborts ==
    UnknownVersions # {} =>
        LET first == CHOOSE k \in UnknownVersions : \A j \in UnknownVersions : k <= j IN
        /\ pc \in {"seed", "fold", "aborted"}
        /\ report.kind = "none"
        /\ pc = "fold" => idx <= first
        /\ pc = "aborted" => (err = [type |-> "RuntimeError", line |-> 71] /\ idx = first)
        /\ pc \in {"fold", "aborted"} => SlotsOf(Keys) = CountsBefore(idx)

C6_Witness ==
    /\ pc = "aborted"
    /\ err.type = "RuntimeError"
    /\ idx = 2
    /\ results[1].count = 7
    /\ SlotsOf(Keys) = 7

RECURSIVE SlotTotal(_, _)
SlotTotal(rec, k) ==
    IF k < 0 THEN 0 ELSE rec.count_direct[k] + rec.count_internal[k] + SlotTotal(rec, k - 1)

RECURSIVE InternalTotal(_, _)
InternalTotal(rec, k) ==
    IF k < 0 THEN 0 ELSE rec.count_internal[k] + InternalTotal(rec, k - 1)

CountAndFractionOK(rec) ==
    LET count == get_count(rec)
        fraction == get_internal_fraction(rec)
    IN /\ count = SlotTotal(rec, NumVersions - 1)
       /\ count >= 0
       /\ fraction[2] > 0
       /\ count = 0 => fraction[1] = fraction[2]
       /\ count # 0 =>
            /\ fraction[1] * count = InternalTotal(rec, NumVersions - 1) * fraction[2]
            /\ 0 <= fraction[1] /\ fraction[1] <= fraction[2]

\* C7, as claimed: for every record in every state, whatever integer counts the
\* observations carry, get_count() is the sum of all slots and is not negative,
\* and get_internal_fraction() is 1.0 when get_count() = 0 and otherwise
\* sum(internal_counts) / get_count(), within [0, 1].
C7_AnyIntegerCounts ==
    \A nm \in Keys : CountAndFractionOK(merged[nm])

\* C7, amended: the same for observations whose counts are all non-negative.
C7_NonNegativeCounts ==
    (\A k \in 1..Len(results) : results[k].count >= 0) =>
        \A nm \in Keys : CountAndFractionOK(merged[nm])

C7_Witness ==
    /\ \A k \in 1..Len(results) : results[k].count >= 0
    /\ \E nm \in Keys : Sum(merged[nm].count_internal) = 7 /\ get_count(merged[nm]) = 10
    /\ \E nm \in Keys : get_count(merged[nm]) = 0

IsUnused(rec) == get_count(rec) = 0
IsBelowThreshold(rec) == 0 < get_count(rec) /\ get_count(rec) <= args.max_count
IsUntested(rec) == ~rec.has_test
IsDeprecated(rec) == rec.is_deprecated
IsSuperseded(rec) == rec.superseded = "superseded"

\* What the summary reports for every category but 'up to threshold'
SummaryCategoriesMatch ==
    /\ report.scalars["total"] = Cardinality(Keys)
    /\ report.scalars["unused"] = Cardinality({nm \in Keys : IsUnused(merged[nm])})
    /\ report.scalars["unused"] = Cardinality(report.sections.unused)
    /\ report.scalars["untested"] = Cardinality({nm \in Keys : IsUntested(merged[nm])})
    /\ report.scalars["untested"] = Cardinality(report.sections.untested)
    /\ report.scalars["deprecated"] = Cardinality({nm \in Keys : IsDeprecated(merged[nm])})
    /\ report.scalars["deprecated"] = Cardinality(report.sections.deprecated)
    /\ report.scalars["superseded"] = Cardinality({nm \in Keys : IsSuperseded(merged[nm])})
    /\ report.scalars["superseded"] = Cardinality(report.sections.superseded)
    /\ Cardinality(report.sections.below_max) = Cardinality({nm \in Keys : IsBelowThreshold(merged[nm])})
    /\ \A l \in report.sections.deprecated :
          l.deprecated = "deprecated" /\ l.name \in Keys /\ merged[l.name].is_deprecated

\* C8, as claimed: in summary mode every reported count equals the number of
\* surviving records of its category and the number of lines listed under it; the
\* 'up to threshold' count is the number of records with 0 < get_count() <= max_count.
C8_ThresholdCountsBandOnly ==
    report.kind = "summary" =>
        /\ SummaryCategoriesMatch
        /\ "up_to_threshold" \in DOMAIN report.scalars =>
              /\ report.scalars["up_to_threshold"] = Cardinality({nm \in Keys : IsBelowThreshold(merged[nm])})
              /\ report.scalars["up_to_threshold"] = Cardinality(report.sections.below_max)

\* C8, amended: the 'up to threshold' count, printed when max_count > 0, is the
\* number of unused records plus the number with 0 < get_count() <= max_count;
\* every other count equals its category's records and listed lines.
C8_ThresholdCountsUnusedToo ==
    report.kind = "summary" =>
        /\ SummaryCategoriesMatch
        /\ ("up_to_threshold" \in DOMAIN report.scalars) <=> (args.max_count > 0)
        /\ "up_to_threshold" \in DOMAIN report.scalars =>
              report.scalars["up_to_threshold"]
                  = Cardinality({nm \in Keys : IsUnused(merged[nm])}) + Cardinality(report.sections.below_max)

C8_Witness ==
    /\ report.kind = "summary"
    /\ args.max_count = 3
    /\ report.scalars["up_to_threshold"] = 2
    /\ Cardinality(report.sections.below_max) = 1
    /\ report.scalars["deprecated"] = 1
    /\ report.scalars["superseded"] = 2
    /\ report.scalars["untested"] = 1
    /\ report.scalars["total"] = 3

FromUsageOnly(rec) == ~rec.ours

\* A step of the filter keeps every record that fails neither selected criterion
FilterKeepsTheRest ==
    pc \in {"filter", "delete"} =>
        \A nm \in Keys :
            (~(args.ours /\ FromUsageOnly(merged[nm])) /\ ~((~args.include_tests) /\ merged[nm].is_test))
                => (nm \in DOMAIN merged' /\ merged'[nm] = merged[nm])

\* C9: the mapping merge() returns holds no FromUsageOnly record when --ours is
\* set and no is_test record unless --include-tests is set, and the filter step
\* leaves every record that fails neither selected criterion in place, unchanged.
C9_UserFilterRemoval ==
    /\ [](Returned =>
            /\ args.ours => \A nm \in Keys : ~FromUsageOnly(merged[nm])
            /\ (~args.include_tests) => \A nm \in Keys : ~merged[nm].is_test)
    /\ [][FilterKeepsTheRest]_vars

C9_Witness ==
    /\ Returned
    /\ args.ours /\ ~args.include_tests
    /\ \E k \in 1..Len(catalog) : catalog[k].is_test
    /\ ResultNames \ CatalogNames # {}
    /\ Keys = {RenameTo}

\* C10: no record is both FromUsageOnly and is_test, so the loop of lines 189-193
\* appends no key twice and the deletions of lines 194-195 never raise.
C10_NoKeyDeletedTwice ==
    /\ \A nm \in Keys : (~merged[nm].ours) => ~merged[nm].is_test
    /\ \A nm \in DOMAIN to_delete : to_delete[nm] <= 1
    /\ err.line # 195

C10_Witness ==
    /\ pc = "rename"
    /\ args.ours /\ ~args.include_tests
    /\ \E nm \in DOMAIN to_delete : to_delete[nm] = 0
    /\ \E nm \in DOMAIN to_delete : to_delete[nm] = 1 /\ nm \in ResultNames \ CatalogNames
    /\ \E nm \in DOMAIN to_delete : to_delete[nm] = 1 /\ nm \in CatalogNames

====
